---- MODULE Spec2Model ----
(***************************************************************************)
(* A model of the vuln-agent repository: the finding confidence scorers    *)
(* (scratch CodeQLTriageAgent and TriageAgent), the severity adjuster of   *)
(* SecurityAnalysisWorkflow, the Flask and Express discovery analyzers and *)
(* the project-level analysis loop.                                        *)
(*                                                                         *)
(* Scores are Python floats in the source.  They are modelled as exact     *)
(* rationals: an integer number of 1/Unit, Unit chosen so that every       *)
(* weight, every ratio safe/total and every effectiveness product is an    *)
(* integer.  Rounding of the last binary digit is not modelled.            *)
(***************************************************************************)
EXTENDS Integers, Sequences, FiniteSets, TLC

VARIABLES
    preset,     \* which scorer produced `result`: "none", "static", "dataflow"
    finding,    \* the analysis record handed to _calculate_confidence_score
    result,     \* what the call did: a returned score or a raised exception
    label,      \* the interpretation printed for the returned score
    base_severity,  \* _adjust_severity's first argument
    confidence,     \* _adjust_severity's second argument
    adjusted,       \* what _adjust_severity did
    analyzer,       \* the FlaskAnalyzer instance and its open visit_FunctionDef calls
    nodes,          \* how many statements of the tree have been visited
    express,        \* the ExpressAnalyzer instance
    express_done,   \* the file paths analyze() has been called with
    project,        \* analyze_project: the tree, the loop position, the results
    triage,         \* analyze_findings / analyze_sarif: the payload, the loop
                    \* position, the scores so far and what the calls did
    discovery,      \* discover_project: the file list, the detected frameworks,
                    \* the loop position, framework_analysis and what it returned
    context,        \* _get_context: the file's length, the region asked for and
                    \* the source_lines of the FindingContext returned
    grouping        \* _group_findings_by_severity: the findings, the loop
                    \* position, severity_groups and what the call did

scoreVars == <<preset, finding, result, label>>
severityVars == <<base_severity, confidence, adjusted>>
flaskVars == <<analyzer, nodes>>
expressVars == <<express, express_done>>
exceptScore == <<severityVars, flaskVars, expressVars, project, triage, discovery, context, grouping>>
exceptSeverity == <<scoreVars, flaskVars, expressVars, project, triage, discovery, context, grouping>>
exceptFlask == <<scoreVars, severityVars, expressVars, project, triage, discovery, context, grouping>>
exceptExpress == <<scoreVars, severityVars, flaskVars, project, triage, discovery, context, grouping>>
exceptProject == <<scoreVars, severityVars, nodes, expressVars, triage, discovery, context, grouping>>
exceptTriage == <<scoreVars, severityVars, flaskVars, expressVars, project, discovery, context, grouping>>
exceptDiscovery == <<scoreVars, severityVars, nodes, expressVars, project, triage, context, grouping>>
exceptContext == <<scoreVars, severityVars, flaskVars, expressVars, project, triage, discovery, grouping>>
exceptGrouping == <<scoreVars, severityVars, flaskVars, expressVars, project, triage, discovery, context>>
vars == <<preset, finding, result, label, base_severity, confidence, adjusted,
          analyzer, nodes, express, express_done, project, triage, discovery, context, grouping>>

----------------------------------------------------------------------------
(* Bounds of the model *)

\* longest similar_patterns list handed to a scorer
MaxSimilar == 5

\* statements and function definitions visited by the Flask analyzer
MaxNodes == 4

\* deepest nesting of function definitions
MaxDepth == 2

\* pattern occurrences in one Express source file
MaxTokens == 2

\* findings in one payload handed to a triage agent
MaxFindings == 2
\* lines of the longest source file a finding is located in
MaxLines == 12

----------------------------------------------------------------------------
(* Exact arithmetic on scores *)

RECURSIVE Gcd(_, _)
Gcd(a, b) == IF b = 0 THEN a ELSE Gcd(b, a % b)

\* the least common multiple of 1 .. n
RECURSIVE Lcm(_)
Lcm(n) == IF n <= 1 THEN 1 ELSE (Lcm(n - 1) * n) \div Gcd(Lcm(n - 1), n)

\* 1.0 in score units; a multiple of 1000 and of every list length
Unit == 1000 * Lcm(MaxSimilar)

\* the float literal k/10 (0.3 is Tenths(3))
Tenths(k) == (k * Unit) \div 10

\* the float k/100
Hundredths(k) == (k * Unit) \div 100

Max(a, b) == IF a >= b THEN a ELSE b
Min(a, b) == IF a <= b THEN a ELSE b

\* dict.get(key, default)
Get(d, key, default) == IF key \in DOMAIN d THEN d[key] ELSE default

\* {} : the empty dict
EmptyDict == [k \in {} |-> 0]

\* sum(1 for p in similar_patterns if p["safety_analysis"]["is_safe"])
RECURSIVE StaticCountSafe(_)
StaticCountSafe(patterns) ==
    IF patterns = <<>> THEN 0
    ELSE (IF Head(patterns).safety_analysis.is_safe THEN 1 ELSE 0)
         + StaticCountSafe(Tail(patterns))

\* sum(1 for p in similar_patterns if p.get("is_safe", False))
RECURSIVE DataFlowCountSafe(_)
DataFlowCountSafe(patterns) ==
    IF patterns = <<>> THEN 0
    ELSE (IF Get(Head(patterns), "is_safe", FALSE) THEN 1 ELSE 0)
         + DataFlowCountSafe(Tail(patterns))

\* a mutant of Clamp01: the score is returned as accumulated
Clamp01_NoClamp(score) == score

\* max(0.0, min(1.0, score))
Clamp01(score) == Max(0, Min(Unit, score))

Returned(score) == [status |-> "returned", score |-> score]
Raised(exc) == [status |-> "raised", exc |-> exc]

----------------------------------------------------------------------------
(* CodeQLTriageAgent._calculate_confidence_score (StaticPatternPolicy) *)

\* a mutant: input validation weighted 0.2 instead of 0.3
StaticPatternSum_WeakValidation(f) ==
      (IF f.ast_patterns.validation_patterns.input_validation THEN Tenths(2) ELSE 0)
    + (IF f.ast_patterns.validation_patterns.sanitizer_calls THEN Tenths(2) ELSE 0)
    + (IF f.ast_patterns.validation_patterns.framework_protection THEN Tenths(2) ELSE 0)
    - (IF f.ast_patterns.unsafe_patterns.direct_use THEN Tenths(3) ELSE 0)
    - (IF f.ast_patterns.unsafe_patterns.missing_validation THEN Tenths(2) ELSE 0)

\* lines 141-158: the five boolean pattern terms
StaticPatternSum(f) ==
      (IF f.ast_patterns.validation_patterns.input_validation THEN Tenths(3) ELSE 0)
    + (IF f.ast_patterns.validation_patterns.sanitizer_calls THEN Tenths(2) ELSE 0)
    + (IF f.ast_patterns.validation_patterns.framework_protection THEN Tenths(2) ELSE 0)
    - (IF f.ast_patterns.unsafe_patterns.direct_use THEN Tenths(3) ELSE 0)
    - (IF f.ast_patterns.unsafe_patterns.missing_validation THEN Tenths(2) ELSE 0)

\* lines 139-169.  safe_patterns / len(similar_patterns) divides by the list
\* length without a guard; sanitizer_analysis["sanitizer_effectiveness"] is a
\* plain subscript.  The statements run in source order, so an empty list
\* raises before the sanitizer key is looked up.
StaticCalculateConfidenceScore(f) ==
    LET patterns == f.similar_patterns
        safe_patterns == StaticCountSafe(patterns)
    IN  IF Len(patterns) = 0 THEN Raised("ZeroDivisionError")
        ELSE IF "sanitizer_effectiveness" \notin DOMAIN f.sanitizer_analysis
        THEN Raised("KeyError")
        ELSE Returned(Clamp01(
                 StaticPatternSum(f)
                 + (safe_patterns * Tenths(2)) \div Len(patterns)
                 + (f.sanitizer_analysis["sanitizer_effectiveness"] * Tenths(1)) \div Unit))

----------------------------------------------------------------------------
(* TriageAgent._calculate_confidence_score (DataFlowAwarePolicy) *)

\* a mutant: an effective sanitizer adds 0.2 instead of subtracting it
DataFlowPatternSum_SanitizerAdds(a) ==
      (IF Get(a.data_flow, "reaches_sink", FALSE) THEN Tenths(4) ELSE 0)
    - (IF Get(a.data_flow, "has_sanitization", FALSE) THEN Tenths(3) ELSE 0)
    + (IF Get(a.ast_patterns, "has_validation", FALSE) THEN Tenths(2) ELSE 0)
    + (IF Get(a.sanitizer_analysis, "effectiveness", 0) > Tenths(7) THEN Tenths(2) ELSE 0)

\* lines 58-70: the data-flow terms and the "existing pattern weights"
DataFlowPatternSum(a) ==
      (IF Get(a.data_flow, "reaches_sink", FALSE) THEN Tenths(4) ELSE 0)
    - (IF Get(a.data_flow, "has_sanitization", FALSE) THEN Tenths(3) ELSE 0)
    + (IF Get(a.ast_patterns, "has_validation", FALSE) THEN Tenths(2) ELSE 0)
    - (IF Get(a.sanitizer_analysis, "effectiveness", 0) > Tenths(7) THEN Tenths(2) ELSE 0)

\* a mutant: the sum starts from the previous call's score instead of 0.0
DataFlowCalculateConfidenceScore_Accumulating(a) ==
    LET patterns == a.similar_patterns
        safe_patterns == DataFlowCountSafe(patterns)
        carried == IF triage.calls # <<>>
                   THEN triage.calls[Len(triage.calls)].result.score
                   ELSE 0
    IN  Returned(Clamp01(
            carried
            + DataFlowPatternSum(a)
            + (IF Len(patterns) > 0
               THEN (safe_patterns * Tenths(2)) \div Len(patterns)
               ELSE 0)))

\* lines 56-79: the similar-pattern term is added only for a non-empty list
DataFlowCalculateConfidenceScore(a) ==
    LET patterns == a.similar_patterns
        safe_patterns == DataFlowCountSafe(patterns)
    IN  Returned(Clamp01(
            DataFlowPatternSum(a)
            + (IF Len(patterns) > 0
               THEN (safe_patterns * Tenths(2)) \div Len(patterns)
               ELSE 0)))

----------------------------------------------------------------------------
(* The interpretation of a score, scratch/triage-agent.py __main__ *)

\* a mutant: the lower cut point is inclusive
Interpretation_Inclusive(score) ==
    IF score <= Tenths(3) THEN "likely true positive"
    ELSE IF score > Tenths(7) THEN "likely false positive"
    ELSE "needs manual review"

\* lines 245-250
Interpretation(score) ==
    IF score < Tenths(3) THEN "likely true positive"
    ELSE IF score > Tenths(7) THEN "likely false positive"
    ELSE "needs manual review"

----------------------------------------------------------------------------
(* Inputs of the scorers *)

Effectiveness == {0, Hundredths(50), Tenths(7), Hundredths(71), Unit}

\* similar_patterns: every list of verdicts of length 0 .. MaxSimilar
RECURSIVE Verdicts(_)
Verdicts(n) ==
    IF n = 0 THEN {<<>>}
    ELSE LET shorter == Verdicts(n - 1)
         IN  shorter \cup {Append(s, b) : s \in {t \in shorter : Len(t) = n - 1},
                                          b \in BOOLEAN}

\* the scratch agent's pattern: {"code": ..., "safety_analysis": {"is_safe": b}};
\* the code text is not read by the scorer
StaticPatterns(vs) ==
    [i \in 1..Len(vs) |-> [safety_analysis |-> [is_safe |-> vs[i]]]]

\* the vector store's pattern as TriageAgent reads it: {"is_safe": b}
DataFlowPatterns(vs) == [i \in 1..Len(vs) |-> [is_safe |-> vs[i]]]

\* sanitizer_analysis dicts: with and without the effectiveness key
SanitizerDicts(key) ==
    {EmptyDict} \cup {[k \in {key} |-> e] : e \in Effectiveness}

StaticFindings ==
    { [ast_patterns |->
          [validation_patterns |->
              [input_validation |-> iv, sanitizer_calls |-> sc,
               framework_protection |-> fp],
           unsafe_patterns |-> [direct_use |-> du, missing_validation |-> mv]],
       similar_patterns |-> StaticPatterns(vs),
       sanitizer_analysis |-> sa] :
      iv \in BOOLEAN, sc \in BOOLEAN, fp \in BOOLEAN, du \in BOOLEAN,
      mv \in BOOLEAN, vs \in Verdicts(MaxSimilar),
      sa \in SanitizerDicts("sanitizer_effectiveness") }

DataFlowAnalyses ==
    { [data_flow |-> [reaches_sink |-> rs, has_sanitization |-> hs],
       ast_patterns |-> [has_validation |-> hv],
       similar_patterns |-> DataFlowPatterns(vs),
       sanitizer_analysis |-> sa] :
      rs \in BOOLEAN, hs \in BOOLEAN, hv \in BOOLEAN,
      vs \in Verdicts(MaxSimilar), sa \in SanitizerDicts("effectiveness") }

NoFinding == EmptyDict
NoResult == [status |-> "none"]

----------------------------------------------------------------------------
(* SecurityAnalysisWorkflow._adjust_severity *)

severity_levels == <<"low", "medium", "high", "critical">>

\* str.lower() on the strings the model feeds in
Lower(s) ==
    CASE s \in {"low", "Low", "LOW"} -> "low"
      [] s \in {"get", "Get"} -> "get"
      [] s \in {"post", "Post"} -> "post"
      [] s \in {"medium", "Medium", "MEDIUM"} -> "medium"
      [] s \in {"high", "High", "HIGH"} -> "high"
      [] s \in {"critical", "Critical", "CRITICAL"} -> "critical"
      [] OTHER -> s

\* list.index(x) as a 0-based index; -1 stands for ValueError
IndexOf(seq, x) ==
    IF \E i \in 1..Len(seq) : seq[i] = x
    THEN (CHOOSE i \in 1..Len(seq) : seq[i] = x /\ \A j \in 1..(i - 1) : seq[j] # x) - 1
    ELSE -1

\* a mutant: the upper cut point is inclusive
AdjustSeverity_Inclusive(base, conf) ==
    LET base_index == IndexOf(severity_levels, Lower(base))
    IN  IF base_index < 0 THEN Raised("ValueError")
        ELSE IF conf < Tenths(3) /\ base_index > 0
        THEN [status |-> "returned", severity |-> severity_levels[base_index]]
        ELSE IF conf >= Tenths(8) /\ base_index < Len(severity_levels) - 1
        THEN [status |-> "returned", severity |-> severity_levels[base_index + 2]]
        ELSE [status |-> "returned", severity |-> base]

\* a mutant: a very high score demotes instead of promoting
AdjustSeverity_DemotesHigh(base, conf) ==
    LET base_index == IndexOf(severity_levels, Lower(base))
    IN  IF base_index < 0 THEN Raised("ValueError")
        ELSE IF conf < Tenths(3) /\ base_index > 0
        THEN [status |-> "returned", severity |-> severity_levels[base_index]]
        ELSE IF conf > Tenths(8) /\ base_index > 0
        THEN [status |-> "returned", severity |-> severity_levels[base_index]]
        ELSE [status |-> "returned", severity |-> base]

\* lines 90-102; severity_levels is 1-based here, so index i of the source is
\* severity_levels[i + 1].  The fall-through returns base_severity as given.
AdjustSeverity(base, conf) ==
    LET base_index == IndexOf(severity_levels, Lower(base))
    IN  IF base_index < 0 THEN Raised("ValueError")
        ELSE IF conf < Tenths(3) /\ base_index > 0
        THEN [status |-> "returned", severity |-> severity_levels[base_index]]
        ELSE IF conf > Tenths(8) /\ base_index < Len(severity_levels) - 1
        THEN [status |-> "returned", severity |-> severity_levels[base_index + 2]]
        ELSE [status |-> "returned", severity |-> base]

SeverityInputs ==
    {"low", "medium", "high", "critical", "Low", "MEDIUM", "High", "CRITICAL"}

Confidences ==
    {Hundredths(5 * k) : k \in 0..20}
    \cup {Hundredths(29), Hundredths(31), Hundredths(79), Hundredths(81)}

----------------------------------------------------------------------------
(* The Flask pattern catalog, patterns/flask_patterns.py *)

SOURCE_PATTERNS ==
    {"request.form", "request.args", "request.get_json", "request.data",
     "request.values", "request.files", "request.headers", "request.cookies",
     "request.environ"}

SINK_PATTERNS ==
    {"make_response", "jsonify", "render_template", "send_file",
     "send_from_directory", "Response", "redirect", "abort",
     "stream_with_context"}

PROCESSOR_PATTERNS ==
    {"before_request", "after_request", "before_first_request",
     "teardown_request", "preprocess_request", "process_response"}

----------------------------------------------------------------------------
(* Syntax trees (the ast module's nodes the analyzers look at) *)

\* Python's None; an f-string formats it as "None", and no function or
\* variable can be named None
None == "None"

Name(id) == [kind |-> "Name", id |-> id]
Constant == [kind |-> "Constant"]
Attribute(value, attr) == [kind |-> "Attribute", value |-> value, attr |-> attr]
Subscript(value) == [kind |-> "Subscript", value |-> value, slice |-> Constant]
Call(func, args) == [kind |-> "Call", func |-> func, args |-> args]
Assign(targets, value) == [kind |-> "Assign", targets |-> targets, value |-> value]
Expr(value) == [kind |-> "Expr", value |-> value]
FunctionDef(name, decorator_list, body) ==
    [kind |-> "FunctionDef", name |-> name, decorator_list |-> decorator_list,
     body |-> body]

\* models.DataFlow
DataFlow(source, sink, path, variables_involved) ==
    [source |-> source, sink |-> sink, path |-> path,
     variables_involved |-> variables_involved]

\* d[key] = value on a dict
DictSet(d, key, value) ==
    [k \in DOMAIN d \cup {key} |-> IF k = key THEN value ELSE d[k]]

----------------------------------------------------------------------------
(* BaseAnalyzer / FlaskAnalyzer *)

\* BaseAnalyzer.__init__; call_stack holds the open visit_FunctionDef calls
\* (each one's node and its local prev_function)
NewAnalyzer ==
    [entry_points |-> {},
     data_flows |-> <<>>,
     current_function |-> None,
     variable_sources |-> EmptyDict,
     current_scope_variables |-> EmptyDict,
     call_stack |-> <<>>]

\* FlaskAnalyzer.visit_Attribute, lines 86-94, before generic_visit.  The
\* recorded location is the function name, not the source path.
visit_Attribute(a, node) ==
    IF /\ node.value.kind = "Name"
       /\ node.value.id = "request"
       /\ ("request." \o node.attr) \in SOURCE_PATTERNS
    THEN [a EXCEPT !.variable_sources =
              DictSet(@, a.current_function,
                      [type |-> "flask_input", location |-> a.current_function])]
    ELSE a

\* FlaskAnalyzer.visit_Call, lines 98-135, before generic_visit
visit_Call(a, node) ==
    IF node.func.kind = "Attribute" /\ node.func.value.kind = "Name"
    THEN LET attr_path == node.func.value.id \o "." \o node.func.attr
         IN  IF attr_path \in SOURCE_PATTERNS
             THEN IF a.current_function # None
                  THEN LET source_name == a.current_function \o "::" \o attr_path
                       IN  [a EXCEPT
                              !.variable_sources =
                                  DictSet(@, a.current_function,
                                          [type |-> "request_data",
                                           location |-> source_name]),
                              !.data_flows =
                                  Append(@, DataFlow(source_name,
                                                     a.current_function,
                                                     <<attr_path, a.current_function>>,
                                                     {node.func.value.id}))]
                  ELSE a
             ELSE IF node.func.attr \in SINK_PATTERNS
             THEN IF a.current_function # None
                  THEN LET source ==
                              Get(Get(a.variable_sources, a.current_function,
                                      EmptyDict),
                                  "location", a.current_function)
                       IN  [a EXCEPT
                              !.data_flows =
                                  Append(@, DataFlow(source,
                                                     a.current_function \o "::"
                                                         \o node.func.attr,
                                                     <<a.current_function>>,
                                                     DOMAIN a.current_scope_variables))]
                  ELSE a
             ELSE a
    ELSE a

\* NodeVisitor.visit on an expression: the visit_<kind> method, then
\* generic_visit on the node's fields in field order
RECURSIVE visit(_, _)
RECURSIVE visit_all(_, _)
RECURSIVE visit_Assign(_, _)
RECURSIVE visit_FunctionDef(_, _)
RECURSIVE generic_visit(_, _)
visit(a, node) ==
    CASE node.kind = "Call" ->
             visit_all(visit(visit_Call(a, node), node.func), node.args)
      [] node.kind = "Attribute" ->
             visit(visit_Attribute(a, node), node.value)
      [] node.kind = "Subscript" ->
             visit(visit(a, node.value), node.slice)
      [] node.kind = "Assign" -> visit_Assign(a, node)
      [] node.kind = "FunctionDef" -> visit_FunctionDef(a, node)
      [] node.kind \in {"Expr", "Return", "Module"} -> generic_visit(a, node)
      [] OTHER -> a

visit_all(a, nodes_) ==
    IF nodes_ = <<>> THEN a
    ELSE visit_all(visit(a, Head(nodes_)), Tail(nodes_))

\* NodeVisitor.generic_visit on a statement that has no visit_ method
generic_visit(a, node) ==
    CASE node.kind = "Module" -> visit_all(a, node.body)
      [] OTHER -> visit(a, node.value)

\* FlaskAnalyzer.visit_Assign, lines 65-80: one target
TrackTarget(a, target, value) ==
    IF target.kind = "Name"
    THEN LET tracked ==
                 [a EXCEPT !.current_scope_variables =
                     DictSet(@, target.id, [source |-> a.current_function])]
         IN  IF /\ value.kind = "Call"
                /\ value.func.kind = "Name"
                /\ value.func.id \in {"input", "request.get_json", "read", "recv"}
             THEN [tracked EXCEPT !.variable_sources =
                      DictSet(@, target.id,
                              [type |-> "external_input",
                               location |-> a.current_function])]
             ELSE tracked
    ELSE a

RECURSIVE TrackTargets(_, _, _)
TrackTargets(a, targets, value) ==
    IF targets = <<>> THEN a
    ELSE TrackTargets(TrackTarget(a, Head(targets), value), Tail(targets), value)

\* FlaskAnalyzer.visit_Assign, lines 62-83
visit_Assign(a, node) ==
    visit(visit_all(TrackTargets(a, node.targets, node.value), node.targets),
          node.value)

\* a mutant of handle_route_decorator: the route edge is put in front of
\* the edges recorded so far
handle_route_decorator_Prepend(a, node) ==
    [a EXCEPT
       !.entry_points = @ \cup {a.current_function \o " (HTTP endpoint)"},
       !.data_flows =
           <<DataFlow("HTTP::" \o a.current_function,
                      a.current_function,
                      <<"wsgi_app", "dispatch_request", a.current_function>>,
                      {"request"})>> \o @]

\* FlaskAnalyzer._handle_route_decorator, lines 49-60
handle_route_decorator(a, node) ==
    [a EXCEPT
       !.entry_points = @ \cup {a.current_function \o " (HTTP endpoint)"},
       !.data_flows =
           Append(@, DataFlow("HTTP::" \o a.current_function,
                              a.current_function,
                              <<"wsgi_app", "dispatch_request", a.current_function>>,
                              {"request"}))]

IsRouteDecorator(decorator) ==
    /\ decorator.kind = "Call"
    /\ "attr" \in DOMAIN decorator.func
    /\ decorator.func.attr \in {"route", "get", "post", "put", "delete"}

\* lines 31-36: the loop over node.decorator_list
RECURSIVE CheckDecorators(_, _, _)
CheckDecorators(a, node, decorators) ==
    IF decorators = <<>> THEN a
    ELSE CheckDecorators(
             IF IsRouteDecorator(Head(decorators))
             THEN handle_route_decorator(a, node)
             ELSE a,
             node, Tail(decorators))

\* lines 38-47: middleware and request processors
TrackProcessor(a) ==
    IF a.current_function \in PROCESSOR_PATTERNS
    THEN [a EXCEPT !.data_flows =
             Append(@, DataFlow("request::" \o a.current_function,
                                "response::" \o a.current_function,
                                <<"wsgi_app", a.current_function>>,
                                {"request", "response"}))]
    ELSE a

\* BaseAnalyzer.visit_FunctionDef lines 30-31, reached through
\* FlaskAnalyzer.visit_FunctionDef line 28: the call is now open
visit_FunctionDef_enter(a, node) ==
    [a EXCEPT
       !.call_stack = Append(@, [node |-> node,
                                 prev_function |-> a.current_function]),
       !.current_function = node.name]

\* a mutant of visit_FunctionDef_exit: the scope is cleared, not restored
visit_FunctionDef_exit_NoRestore(a) ==
    LET frame == a.call_stack[Len(a.call_stack)]
        decorated == visit_all(a, frame.node.decorator_list)
        restored ==
            [decorated EXCEPT
               !.current_function = None,
               !.call_stack = SubSeq(@, 1, Len(@) - 1)]
    IN  TrackProcessor(
            CheckDecorators(restored, frame.node, frame.node.decorator_list))

\* The rest of visit_FunctionDef once the body has been visited:
\* generic_visit goes on to decorator_list, BaseAnalyzer line 33 restores
\* current_function, and only then FlaskAnalyzer lines 30-47 run
visit_FunctionDef_exit(a) ==
    LET frame == a.call_stack[Len(a.call_stack)]
        decorated == visit_all(a, frame.node.decorator_list)
        restored ==
            [decorated EXCEPT
               !.current_function = frame.prev_function,
               !.call_stack = SubSeq(@, 1, Len(@) - 1)]
    IN  TrackProcessor(
            CheckDecorators(restored, frame.node, frame.node.decorator_list))

\* FlaskAnalyzer.visit_FunctionDef, lines 25-47, on a whole definition
visit_FunctionDef(a, node) ==
    visit_FunctionDef_exit(visit_all(visit_FunctionDef_enter(a, node), node.body))

----------------------------------------------------------------------------
(* ExpressAnalyzer: regular expressions over the file's text *)

\* The text of a file is modelled by the occurrences, in text order, of the
\* constructs the regular expressions of _analyze_express_patterns can match:
\*   call       app.get('/users', ...      obj.method('path'
\*   use        router.use('/api', auth)   obj.use(args), path = the quoted
\*              app.use(cors)              first argument, "" if it is not quoted
\*   decorator  @Get('/items')
\*   source     req.body, request.query
\*   sink       res.json(, response.send(
RouteCall(obj, method, path) ==
    [kind |-> "call", obj |-> obj, method |-> method, path |-> path]
UseCall(obj, path, args) ==
    [kind |-> "use", obj |-> obj, method |-> "use", path |-> path, args |-> args]
RouteDecorator(verb, path) ==
    [kind |-> "decorator", verb |-> verb, path |-> path]
SourceAccess(obj, attr) == [kind |-> "source", obj |-> obj, attr |-> attr]
SinkCall(obj, method) == [kind |-> "sink", obj |-> obj, method |-> method]

\* str.upper() on the route methods
Upper(s) ==
    CASE s = "get" -> "GET"
      [] s = "post" -> "POST"
      [] s = "use" -> "USE"
      [] OTHER -> s

\* ExpressAnalyzer.__init__ (the BaseAnalyzer fields the regex pass never
\* touches are left out)
NewExpressAnalyzer ==
    [entry_points |-> {}, data_flows |-> <<>>, current_route |-> None]

\* lines 55-59: which occurrences route_patterns[i] matches
MatchesRoutePattern(i, t) ==
    CASE i = 1 -> t.kind = "call" /\ t.obj \in {"app", "router"}
                  /\ t.method \in {"get", "post", "put", "delete", "patch"}
      [] i = 2 -> t.kind = "use" /\ t.obj \in {"app", "router"} /\ t.path # ""
      [] i = 3 -> t.kind = "decorator"
                  /\ t.verb \in {"Get", "Post", "Put", "Delete", "Patch"}

\* lines 82-99: one route match
AddRoute(x, t) ==
    LET method == IF t.kind = "decorator" THEN Lower(t.verb) ELSE t.method
        route_name == Upper(method) \o " " \o t.path
    IN  [x EXCEPT
           !.entry_points = @ \cup {route_name \o " (HTTP endpoint)"},
           !.current_route = route_name,
           !.data_flows =
               Append(@, DataFlow("HTTP::" \o route_name, route_name,
                                  <<"express", "router", route_name>>,
                                  {"req", "res"}))]

\* lines 102-114: one middleware match; group(1) is the argument text
AddMiddleware(x, t) ==
    LET middleware_name == t.args
    IN  IF middleware_name # ""
        THEN [x EXCEPT !.data_flows =
                 Append(@, DataFlow("request::" \o middleware_name,
                                    "response::" \o middleware_name,
                                    <<"express", "middleware", middleware_name>>,
                                    {"req", "res", "next"}))]
        ELSE x

\* lines 119-130: one data source match
AddDataSource(x, t) ==
    LET source_type == t.attr
    IN  [x EXCEPT !.data_flows =
            Append(@, DataFlow("request." \o source_type, x.current_route,
                               <<"express", "request", source_type>>,
                               {"req." \o source_type}))]

\* lines 133-144: one data sink match
AddDataSink(x, t) ==
    LET sink_type == t.method
    IN  [x EXCEPT !.data_flows =
            Append(@, DataFlow(x.current_route, "response." \o sink_type,
                               <<"express", "response", sink_type>>,
                               {"res." \o sink_type}))]

\* what one pass (one pattern of one pattern list) does with an occurrence
ApplyMatch(x, pass, t) ==
    CASE pass.list = "route" ->
             IF MatchesRoutePattern(pass.i, t) THEN AddRoute(x, t) ELSE x
      [] pass.list = "middleware" ->
             IF t.kind = "use" /\ t.obj = pass.obj THEN AddMiddleware(x, t) ELSE x
      [] pass.list = "source" ->
             IF /\ t.kind = "source" /\ t.obj = pass.obj
                /\ t.attr \in {"body", "query", "params", "cookies", "headers"}
             THEN AddDataSource(x, t) ELSE x
      [] pass.list = "sink" ->
             IF /\ t.kind = "sink" /\ t.obj = pass.obj
                /\ t.method \in {"json", "send", "render", "redirect"}
             THEN AddDataSink(x, t) ELSE x

\* re.finditer(pattern, content): the matches in text order
RECURSIVE FindIter(_, _, _)
FindIter(x, pass, content) ==
    IF content = <<>> THEN x
    ELSE FindIter(ApplyMatch(x, pass, Head(content)), pass, Tail(content))

RECURSIVE ForEachPattern(_, _, _)
ForEachPattern(x, passes, content) ==
    IF passes = <<>> THEN x
    ELSE ForEachPattern(FindIter(x, Head(passes), content), Tail(passes), content)

\* ExpressAnalyzer._analyze_express_patterns, lines 50-144
analyze_express_patterns(x, content) ==
    LET routed ==
            ForEachPattern(x, <<[list |-> "route", i |-> 1],
                                [list |-> "route", i |-> 2],
                                [list |-> "route", i |-> 3]>>, content)
        middleware ==
            ForEachPattern(routed, <<[list |-> "middleware", obj |-> "app"],
                                     [list |-> "middleware", obj |-> "router"]>>,
                           content)
    IN  IF middleware.current_route # None
        THEN ForEachPattern(
                 ForEachPattern(middleware,
                                <<[list |-> "source", obj |-> "req"],
                                  [list |-> "source", obj |-> "request"]>>,
                                content),
                 <<[list |-> "sink", obj |-> "res"],
                   [list |-> "sink", obj |-> "response"]>>,
                 content)
        ELSE middleware

\* the occurrences the model writes into Express files
ExpressTokens ==
    {RouteCall("app", "get", "/users"),
     UseCall("router", "/api", "'/api', auth"),
     UseCall("app", "", "cors"),
     RouteDecorator("Post", "/items"),
     SourceAccess("req", "body"),
     SourceAccess("request", "query"),
     SinkCall("res", "json"),
     SinkCall("response", "send")}

RECURSIVE ExpressContents(_)
ExpressContents(n) ==
    IF n = 0 THEN {<<>>}
    ELSE LET shorter == ExpressContents(n - 1)
         IN  shorter \cup {Append(c, t) : c \in {d \in shorter : Len(d) = n - 1},
                                          t \in ExpressTokens}

\* the JavaScript files of the analysed project
ExpressFiles == {"routes.js", "server.js"}

----------------------------------------------------------------------------
(* analyze_project, ast_analysis/__init__.py *)

Return(value) == [kind |-> "Return", value |-> value]
Module(body) == [kind |-> "Module", body |-> body]
\* a text ast.parse rejects
Unparsable == [kind |-> "SyntaxError"]

\* patterns/flask_patterns.py lines 20-39
TRUST_BOUNDARIES ==
    [wsgi |-> [name |-> "WSGI Boundary", entry_points |-> {"wsgi_app"},
               exit_points |-> {"__call__"}, sanitizers |-> {}],
     request_processing |->
              [name |-> "Request Processing", entry_points |-> PROCESSOR_PATTERNS,
               exit_points |-> SINK_PATTERNS,
               sanitizers |-> {"escape", "safe_join", "secure_filename"}],
     session |-> [name |-> "Session Boundary", entry_points |-> {"session"},
                  exit_points |-> {"session.save"},
                  sanitizers |-> {"session.sign", "session.encrypt"}]]

\* The Python files a source tree may hold (none of them in a test, example
\* or sample directory, which find_python_files skips), with their text
FilePool ==
    {[path |-> "pkg/app.py", name |-> "app.py"],
     [path |-> "pkg/views.py", name |-> "views.py"],
     [path |-> "pkg/__main__.py", name |-> "__main__.py"],
     [path |-> "pkg/broken.py", name |-> "broken.py"]}

FileText(file) ==
    CASE file.name = "app.py" ->
             \* @app.route('/upload')
             \* def upload():
             \*     file = request.files['f']
             \*     return send_file(file)
             Module(<<FunctionDef("upload",
                        <<Call(Attribute(Name("app"), "route"), <<Constant>>)>>,
                        <<Assign(<<Name("file")>>,
                                 Subscript(Attribute(Name("request"), "files"))),
                          Return(Call(Name("send_file"), <<Name("file")>>))>>)>>)
      [] file.name = "views.py" ->
             \* def before_request():
             \*     data = request.get_json()
             \*     return flask.jsonify(data)
             Module(<<FunctionDef("before_request", <<>>,
                        <<Assign(<<Name("data")>>,
                                 Call(Attribute(Name("request"), "get_json"), <<>>)),
                          Return(Call(Attribute(Name("flask"), "jsonify"),
                                      <<Name("data")>>))>>)>>)
      [] file.name = "__main__.py" ->
             \* def main():
             \*     @app.get('/health')
             \*     def health():
             \*         return flask.make_response(request.form)
             Module(<<FunctionDef("main", <<>>,
                        <<FunctionDef("health",
                            <<Call(Attribute(Name("app"), "get"), <<Constant>>)>>,
                            <<Return(Call(Attribute(Name("flask"), "make_response"),
                                          <<Attribute(Name("request"), "form")>>))>>)>>)>>)
      [] file.name = "manage.py" ->
             \* a script that defines no function and touches no request
             Module(<<>>)
      [] OTHER -> Unparsable

\* a mutant of AnalyzeProjectFile: a text that does not parse discards what
\* the earlier files contributed
AnalyzeProjectFile_Discard(a, file) ==
    LET tree == FileText(file)
    IN  IF tree.kind = "SyntaxError" THEN NewAnalyzer
        ELSE LET visited == visit(a, tree)
             IN  IF file.name = "__main__.py"
                 THEN [visited EXCEPT !.entry_points = @ \cup {file.path}]
                 ELSE visited

\* lines 17-27: the body of the loop for one path; ast.parse raises on a
\* text it rejects and the except clause goes on to the next path
AnalyzeProjectFile(a, file) ==
    LET tree == FileText(file)
    IN  IF tree.kind = "SyntaxError" THEN a
        ELSE LET visited == visit(a, tree)
             IN  IF file.name = "__main__.py"
                 THEN [visited EXCEPT !.entry_points = @ \cup {file.path}]
                 ELSE visited

\* list(s) for a set s: the elements in the set's iteration order, which
\* for strings changes with the interpreter's hash seed
ListsOf(S) ==
    {seq \in [1..Cardinality(S) -> S] :
        \A i, j \in 1..Cardinality(S) : i # j => seq[i] # seq[j]}

\* a mutant of ProjectResult: the boundaries are left out of a result that
\* found nothing
ProjectResult_NoBoundaries(a, entry_points) ==
    [entry_points |-> entry_points,
     data_flows |-> a.data_flows,
     trust_boundaries |->
         IF a.data_flows = <<>> THEN EmptyDict ELSE TRUST_BOUNDARIES]

\* lines 29-42: the returned dict
ProjectResult(a, entry_points) ==
    [entry_points |-> entry_points,
     data_flows |-> a.data_flows,
     trust_boundaries |-> TRUST_BOUNDARIES]

NewProject == [tree |-> {}, phase |-> "idle", pending |-> {}, results |-> <<>>]

----------------------------------------------------------------------------
(* Scoring a payload of findings: TriageAgent.analyze_findings and the       *)
(* scratch CodeQLTriageAgent.analyze_sarif / _score_findings                 *)

\* A reported finding.  `id` is None when the dict has no "id" key; `located`
\* tells whether its location and source context can be obtained; `profile`
\* stands for what the external collaborators (AST pattern checks,
\* similarity search, sanitizer estimator) answer for its context.
RawFinding(ruleId, id, located, profile) ==
    [ruleId |-> ruleId, id |-> id, located |-> located, profile |-> profile]

Profiles == {"validated", "direct", "bare"}

RawFindings ==
    {RawFinding(r, i, l, p) : r \in {"py/sql-injection", "py/xss"},
                              i \in {None, "F-1"}, l \in BOOLEAN, p \in Profiles}

\* the dict CodeQLTriageAgent._analyze_finding returns, lines 53-59
StaticEnriched(f) ==
    [result |-> f,
     ast_patterns |->
        [validation_patterns |->
            [input_validation |-> f.profile = "validated",
             sanitizer_calls |-> f.profile = "validated",
             framework_protection |-> FALSE],
         unsafe_patterns |-> [direct_use |-> f.profile = "direct",
                              missing_validation |-> FALSE]],
     similar_patterns |->
        CASE f.profile = "validated" ->
                 StaticPatterns(<<TRUE, TRUE, TRUE, FALSE, FALSE>>)
          [] f.profile = "direct" -> StaticPatterns(<<FALSE>>)
          [] OTHER -> <<>>,
     sanitizer_analysis |->
        [sanitizer_effectiveness |->
            IF f.profile = "validated" THEN Hundredths(50) ELSE 0]]

\* the dict TriageAgent._analyze_finding returns, lines 47-54
DataFlowEnriched(f) ==
    [finding |-> f,
     data_flow |-> IF f.profile = "bare" THEN EmptyDict
                   ELSE [reaches_sink |-> TRUE,
                         has_sanitization |-> FALSE],
     ast_patterns |-> [has_validation |-> f.profile = "validated"],
     similar_patterns |->
        CASE f.profile = "validated" ->
                 DataFlowPatterns(<<TRUE, TRUE, TRUE, FALSE, FALSE>>)
          [] f.profile = "direct" -> DataFlowPatterns(<<FALSE>>)
          [] OTHER -> <<>>,
     sanitizer_analysis |-> EmptyDict]

\* _analyze_finding of either agent: result["locations"][0] (scratch line
\* 37) or the context lookup (TriageAgent line 34) raises for a finding
\* whose location is missing
analyze_finding(agent, f) ==
    IF ~f.located THEN Raised("KeyError")
    ELSE [status |-> "returned",
          analysis |-> IF agent = "CodeQLTriageAgent" THEN StaticEnriched(f)
                       ELSE DataFlowEnriched(f)]

\* finding["result"]["ruleId"] (scratch line 135);
\* finding.get("id") or finding.get("ruleId") (TriageAgent line 27)
FindingId(agent, f) ==
    IF agent = "CodeQLTriageAgent" THEN f.ruleId
    ELSE IF f.id # None THEN f.id ELSE f.ruleId

\* every list of at most n findings
RECURSIVE Payloads(_)
Payloads(n) ==
    IF n = 0 THEN {<<>>}
    ELSE LET shorter == Payloads(n - 1)
         IN  shorter \cup {Append(p, f) : p \in {q \in shorter : Len(q) = n - 1},
                                          f \in RawFindings}

\* the same findings in every order
Reorderings(payload) ==
    {[i \in DOMAIN payload |-> payload[perm[i]]] : perm \in ListsOf(DOMAIN payload)}

NewTriage ==
    [agent |-> "none", phase |-> "idle", payload |-> <<>>, findings |-> <<>>,
     position |-> 1, scores |-> EmptyDict, outcomes |-> <<>>,
     \* self.analysis_cache, and the scorer calls made so far with what each
     \* was handed and what it did
     analysis_cache |-> EmptyDict, calls |-> <<>>]

----------------------------------------------------------------------------
(* discover_project and its helpers (workflow/discovery/discovery.py) *)

Frameworks == {"flask", "django", "fastapi"}

\* the files get_directory_tree may list: the analysed sources and a
\* manage.py at the root of the repository
DiscoverPool == FilePool \cup {[path |-> "manage.py", name |-> "manage.py"]}

\* detect_frameworks, lines 61-87.  `reqs` is the set of framework names the
\* lower-cased requirements.txt mentions (empty when the file is absent).
\* No path of the pool ends with flask.py; the path that contains app.py and
\* is no test file is pkg/app.py.
detect_frameworks(files, reqs) ==
    LET flask_patterns == {f \in files : f.name = "app.py"}
    IN  {fw \in Frameworks :
           \/ fw = "flask" /\ ("flask" \in reqs \/ flask_patterns # {})
           \/ /\ fw = "django"
              /\ "django" \in reqs
              /\ \E f \in files : f.path \in {"manage.py", "wsgi.py"}
           \/ fw = "fastapi" /\ "fastapi" \in reqs}

\* a mutant of get_analyzer_for_framework: analyzer_map[framework] instead
\* of analyzer_map.get(framework)
get_analyzer_for_framework_Subscript(framework) ==
    IF framework = "flask"
    THEN [status |-> "analyzer", analyzer |-> NewAnalyzer]
    ELSE Raised("KeyError")

\* get_analyzer_for_framework, lines 89-99: a fresh FlaskAnalyzer for
\* 'flask', None for every other name
get_analyzer_for_framework(framework) ==
    IF framework = "flask"
    THEN [status |-> "analyzer", analyzer |-> NewAnalyzer]
    ELSE NoResult

\* FlaskAnalyzer.analyze, lines 11-23: a text that does not parse leaves the
\* analyzer as it was
analyze(a, file) ==
    LET tree == FileText(file)
    IN  IF tree.kind = "SyntaxError" THEN a ELSE visit(a, tree)

\* BaseAnalyzer.scope_variables, base.py lines 13-16
scope_variables(a) == DOMAIN a.current_scope_variables

\* flow.to_dict() at line 154: the DataFlow dataclass of
\* ast_analysis/models.py defines no such method
to_dict(flow) == Raised("AttributeError")

\* [flow.to_dict() for flow in analyzer.data_flows]: the first element that
\* raises ends the comprehension
RECURSIVE ToDicts(_)
ToDicts(flows) ==
    IF flows = <<>> THEN [status |-> "returned", value |-> <<>>]
    ELSE LET first == to_dict(Head(flows))
             rest == ToDicts(Tail(flows))
         IN  IF first.status = "raised" THEN first
             ELSE IF rest.status = "raised" THEN rest
             ELSE [status |-> "returned", value |-> <<first.value>> \o rest.value]

\* lines 150-160: what the loop body stores for one framework.  entry_points
\* and variables are list(set), handed in in the order the set iterates.
FrameworkEntry(a, entry_points, variables) ==
    IF a.entry_points # {} \/ a.data_flows # <<>>
    THEN LET data_flows == ToDicts(a.data_flows)
         IN  IF data_flows.status = "raised" THEN data_flows
             ELSE [status |-> "returned",
                   value |-> [entry_points |-> entry_points,
                              data_flows |-> data_flows.value,
                              variables |-> variables]]
    ELSE NoResult

\* lines 168-178, the keys that depend on the analysis
ProjectInfo(d) ==
    [file_tree |-> d.files,
     file_count |-> Len(d.files),
     frameworks |-> d.frameworks,
     framework_analysis |-> d.framework_analysis]

\* `analyzers` remembers, per framework that got an analyzer, what that
\* analyzer held when its files were done
NewDiscovery ==
    [phase |-> "idle", files |-> <<>>, frameworks |-> <<>>, position |-> 1,
     relevant_files |-> <<>>, framework_analysis |-> EmptyDict, analyzers |-> EmptyDict,
     project_info |-> NoResult]

----------------------------------------------------------------------------
(* CodeQLTriageAgent._get_context (scratch/triage-agent.py) *)

\* vector_db.get_file_lines(file) for a file of n lines: a Python list, each
\* line standing for its 1-based number in the file
get_file_lines(n) == [i \in 1..n |-> i]

\* seq[start:stop] for start, stop >= 0: the elements at the 0-based
\* indices start .. stop-1 that exist
Slice(seq, start, stop) ==
    SubSeq(seq, Min(start, Len(seq)) + 1, Min(stop, Len(seq)))

\* lines 61-67: the source_lines of the FindingContext
get_context(n, region) ==
    LET source_lines == get_file_lines(n)
        start_line == Max(0, region.startLine - 5)
        end_line == Min(Len(source_lines), region.endLine + 5)
    IN  Slice(source_lines, start_line, end_line)

\* the regions a SARIF result reports in a file of n lines: 1-based,
\* startLine <= endLine, inside the file
Regions(n) ==
    {r \in [startLine : 1..n, endLine : 1..n] : r.startLine <= r.endLine}

NoContext == [status |-> "none"]

----------------------------------------------------------------------------
(* SecurityAnalysisWorkflow._group_findings_by_severity *)

\* lines 74-79
NewSeverityGroups ==
    [key \in {"critical", "high", "medium", "low"} |-> <<>>]

\* lines 83-87: one iteration of the loop.  severity_groups[key] raises
\* KeyError for a key the dict does not hold.
GroupFinding(severity_groups, f) ==
    LET adjusted_severity == AdjustSeverity(f.severity, f.confidence_score)
    IN  IF adjusted_severity.status = "raised" THEN adjusted_severity
        ELSE IF adjusted_severity.severity \notin DOMAIN severity_groups
        THEN Raised("KeyError")
        ELSE [status |-> "returned",
              groups |-> [severity_groups EXCEPT
                            ![adjusted_severity.severity] = Append(@, f)]]

\* confidence scores below 0.3, between the thresholds and above 0.8
GroupConfidences == {Tenths(2), Tenths(5), Tenths(9)}

\* the findings handed in: a base severity in some letter case and a score
GroupFindings ==
    [severity : SeverityInputs, confidence_score : GroupConfidences]

RECURSIVE FindingLists(_)
FindingLists(n) ==
    IF n = 0 THEN {<<>>}
    ELSE FindingLists(n - 1)
         \cup {Append(l, f) : l \in {m \in FindingLists(n - 1) : Len(m) = n - 1},
                              f \in GroupFindings}

NewGrouping ==
    [phase |-> "idle", findings |-> <<>>, position |-> 1,
     severity_groups |-> NewSeverityGroups, outcome |-> NoResult]

----------------------------------------------------------------------------
(* Source text fed to the Flask analyzer *)

\* names of the function definitions in the analysed files
FunctionNames == {"upload", "before_request"}

\* decorator lists: none, @app.route('/x'), @app.errorhandler(404)
DecoratorLists ==
    {<<>>,
     <<Call(Attribute(Name("app"), "route"), <<Constant>>)>>,
     <<Call(Attribute(Name("app"), "errorhandler"), <<Constant>>)>>}

\* assignment targets; the second one is also a function's name
Targets == {Name("file"), Name("upload")}

Expressions ==
    {Subscript(Attribute(Name("request"), "files")),      \* request.files['f']
     Call(Attribute(Name("request"), "get_json"), <<>>),  \* request.get_json()
     Call(Name("send_file"), <<Name("file")>>),           \* send_file(file)
     Call(Attribute(Name("flask"), "jsonify"), <<Name("file")>>),
                                                          \* flask.jsonify(file)
     Call(Name("input"), <<>>),                           \* input()
     Call(Attribute(Name("flask"), "make_response"),
          <<Attribute(Name("request"), "form")>>)}        \* flask.make_response(request.form)

----------------------------------------------------------------------------
(* The state machine *)

Init ==
    /\ preset = "none"
    /\ finding = NoFinding
    /\ result = NoResult
    /\ label = ""
    /\ base_severity = "low"
    /\ confidence = 0
    /\ adjusted = NoResult
    /\ analyzer = NewAnalyzer
    /\ nodes = 0
    /\ express = NewExpressAnalyzer
    /\ express_done = {}
    /\ project = NewProject
    /\ triage = NewTriage
    /\ discovery = NewDiscovery
    /\ context = NoContext
    /\ grouping = NewGrouping

\* CodeQLTriageAgent._score_findings scores one finding
ScoreStaticPattern ==
    /\ preset = "none"
    /\ \E f \in StaticFindings :
        /\ preset' = "static"
        /\ finding' = f
        /\ result' = StaticCalculateConfidenceScore(f)
        /\ label' = ""
        /\ UNCHANGED exceptScore

\* TriageAgent.analyze_findings scores one analysis
ScoreDataFlowAware ==
    /\ preset = "none"
    /\ \E a \in DataFlowAnalyses :
        /\ preset' = "dataflow"
        /\ finding' = a
        /\ result' = DataFlowCalculateConfidenceScore(a)
        /\ label' = ""
        /\ UNCHANGED exceptScore

\* the result loop of __main__ interprets a returned score
InterpretResult ==
    /\ result.status = "returned"
    /\ label = ""
    /\ label' = Interpretation(result.score)
    /\ UNCHANGED <<preset, finding, result>>
    /\ UNCHANGED exceptScore

\* the loop over the findings moves on to the next one
NextFinding ==
    /\ label # ""
    /\ preset' = "none"
    /\ finding' = NoFinding
    /\ result' = NoResult
    /\ label' = ""
    /\ UNCHANGED exceptScore

\* _group_findings_by_severity adjusts one finding's severity
AdjustOne ==
    \E b \in SeverityInputs, c \in Confidences :
        /\ base_severity' = b
        /\ confidence' = c
        /\ adjusted' = AdjustSeverity(b, c)
        /\ UNCHANGED exceptSeverity

NextScore ==
    ScoreStaticPattern \/ ScoreDataFlowAware \/ InterpretResult \/ NextFinding
SpecScore == Init /\ [][NextScore]_vars

\* the walker reaches a function definition: visit_FunctionDef is entered
EnterFunctionDef ==
    /\ nodes < MaxNodes
    /\ Len(analyzer.call_stack) < MaxDepth
    /\ \E name \in FunctionNames, decorator_list \in DecoratorLists :
          analyzer' = visit_FunctionDef_enter(
                          analyzer, FunctionDef(name, decorator_list, <<>>))
    /\ nodes' = nodes + 1
    /\ UNCHANGED exceptFlask

\* the body of the innermost open function definition has been visited
LeaveFunctionDef ==
    /\ analyzer.call_stack # <<>>
    /\ analyzer' = visit_FunctionDef_exit(analyzer)
    /\ UNCHANGED nodes
    /\ UNCHANGED exceptFlask

\* the walker reaches an assignment statement
VisitAssign ==
    /\ nodes < MaxNodes
    /\ \E target \in Targets, value \in Expressions :
          analyzer' = visit_Assign(analyzer, Assign(<<target>>, value))
    /\ nodes' = nodes + 1
    /\ UNCHANGED exceptFlask

\* the walker reaches an expression or return statement
VisitExpr ==
    /\ nodes < MaxNodes
    /\ \E value \in Expressions :
          analyzer' = visit(analyzer, value)
    /\ nodes' = nodes + 1
    /\ UNCHANGED exceptFlask

NextFlask == EnterFunctionDef \/ LeaveFunctionDef \/ VisitAssign \/ VisitExpr
SpecFlask == Init /\ [][NextFlask]_vars

\* ExpressAnalyzer.analyze(content, file_path), lines 38-48
AnalyzeExpressFile ==
    /\ \E file_path \in ExpressFiles \ express_done :
          /\ express_done' = express_done \cup {file_path}
          /\ \E content \in ExpressContents(MaxTokens) :
                express' = analyze_express_patterns(express, content)
    /\ UNCHANGED exceptExpress

NextExpress == AnalyzeExpressFile
SpecExpress == Init /\ [][NextExpress]_vars

\* analyze_project is called: lines 12-15.  The first call finds some tree;
\* a later call finds the identical one.
StartAnalyzeProject ==
    /\ project.phase = "idle"
    /\ Len(project.results) < 2
    /\ \E tree \in (IF project.results = <<>> THEN SUBSET FilePool
                    ELSE {project.tree}) :
          project' = [project EXCEPT !.tree = tree, !.pending = tree,
                                     !.phase = "analyzing"]
    /\ analyzer' = NewAnalyzer
    /\ UNCHANGED exceptProject

\* one iteration of `for path in python_files`: python_files is a set of
\* Path objects, so any path not yet taken may come next
AnalyzeNextPath ==
    /\ project.phase = "analyzing"
    /\ \E file \in project.pending :
          /\ analyzer' = AnalyzeProjectFile(analyzer, file)
          /\ project' = [project EXCEPT !.pending = @ \ {file}]
    /\ UNCHANGED exceptProject

\* the loop is over: lines 29-42
ReturnProjectResult ==
    /\ project.phase = "analyzing"
    /\ project.pending = {}
    /\ \E entry_points \in ListsOf(analyzer.entry_points) :
          project' = [project EXCEPT
                        !.phase = "idle",
                        !.results = Append(@, ProjectResult(analyzer, entry_points))]
    /\ UNCHANGED analyzer
    /\ UNCHANGED exceptProject

NextProject == StartAnalyzeProject \/ AnalyzeNextPath \/ ReturnProjectResult
SpecProject == Init /\ [][NextProject]_vars

NextSeverity == AdjustOne
SpecSeverity == Init /\ [][NextSeverity]_vars

\* the first call of an agent is handed any payload; its second call is
\* handed the same findings in some order
Handed(agent) ==
    IF triage.outcomes = <<>> THEN Payloads(MaxFindings)
    ELSE IF agent = triage.agent THEN Reorderings(triage.payload)
    ELSE {}

\* the loop variables at the start of a call
Called(agent, payload) ==
    [triage EXCEPT
       !.agent = agent,
       !.phase = IF agent = "CodeQLTriageAgent" THEN "enriching" ELSE "scoring",
       !.payload = payload,
       !.findings = <<>>,
       !.position = 1,
       !.scores = EmptyDict]

\* TriageAgent.analyze_findings is called: lines 20-22
StartAnalyzeFindings ==
    /\ triage.phase = "idle"
    /\ Len(triage.outcomes) < 2
    /\ \E findings \in Handed("TriageAgent") :
          triage' = Called("TriageAgent", findings)
    /\ UNCHANGED exceptTriage

\* CodeQLTriageAgent.analyze_sarif is called: lines 21-26
StartAnalyzeSarif ==
    /\ triage.phase = "idle"
    /\ Len(triage.outcomes) < 2
    /\ \E results \in Handed("CodeQLTriageAgent") :
          triage' = Called("CodeQLTriageAgent", results)
    /\ UNCHANGED exceptTriage

\* an exception leaves the call: nothing is returned
Propagate(exc) ==
    [triage EXCEPT !.phase = "idle",
                   !.outcomes = Append(@, [status |-> "raised", exc |-> exc])]

\* analyze_sarif lines 27-30: one iteration of the result loop
EnrichNextResult ==
    /\ triage.phase = "enriching"
    /\ triage.position <= Len(triage.payload)
    /\ LET enriched == analyze_finding(triage.agent, triage.payload[triage.position])
       IN  triage' =
               IF enriched.status = "raised" THEN Propagate(enriched.exc)
               ELSE [triage EXCEPT !.findings = Append(@, enriched.analysis),
                                   !.position = @ + 1]
    /\ UNCHANGED exceptTriage

\* analyze_sarif line 32 calls _score_findings: lines 130-132
StartScoreFindings ==
    /\ triage.phase = "enriching"
    /\ triage.position > Len(triage.payload)
    /\ triage' = [triage EXCEPT !.phase = "scoring", !.position = 1]
    /\ UNCHANGED exceptTriage

\* _score_findings lines 133-136: one iteration
ScoreNextFinding ==
    /\ triage.phase = "scoring"
    /\ triage.agent = "CodeQLTriageAgent"
    /\ triage.position <= Len(triage.findings)
    /\ LET f == triage.findings[triage.position]
           score == StaticCalculateConfidenceScore(f)
           call == [agent |-> triage.agent, analysis |-> f, result |-> score]
       IN  triage' =
               IF score.status = "raised"
               THEN [Propagate(score.exc) EXCEPT !.calls = Append(@, call)]
               ELSE [triage EXCEPT
                       !.scores = DictSet(@, FindingId(triage.agent, f.result),
                                          score.score),
                       !.position = @ + 1,
                       !.calls = Append(@, call)]
    /\ UNCHANGED exceptTriage

\* analyze_findings lines 24-28: one iteration
AnalyzeNextFinding ==
    /\ triage.phase = "scoring"
    /\ triage.agent = "TriageAgent"
    /\ triage.position <= Len(triage.payload)
    /\ LET f == triage.payload[triage.position]
           enriched == analyze_finding(triage.agent, f)
       IN  triage' =
               IF enriched.status = "raised" THEN Propagate(enriched.exc)
               ELSE LET score == DataFlowCalculateConfidenceScore(enriched.analysis)
                        call == [agent |-> triage.agent,
                                 analysis |-> enriched.analysis,
                                 result |-> score]
                    IN  [triage EXCEPT
                           !.scores = DictSet(@, FindingId(triage.agent, f),
                                              score.score),
                           !.position = @ + 1,
                           !.calls = Append(@, call)]
    /\ UNCHANGED exceptTriage

\* the loop is over and the mapping is returned: analyze_findings line 30,
\* _score_findings line 137
ReturnScores ==
    /\ triage.phase = "scoring"
    /\ triage.position >
           (IF triage.agent = "TriageAgent" THEN Len(triage.payload)
            ELSE Len(triage.findings))
    /\ triage' = [triage EXCEPT
                    !.phase = "idle",
                    !.outcomes = Append(@, [status |-> "returned",
                                            scores |-> triage.scores])]
    /\ UNCHANGED exceptTriage

NextTriage ==
    \/ StartAnalyzeFindings \/ StartAnalyzeSarif \/ EnrichNextResult
    \/ StartScoreFindings \/ ScoreNextFinding \/ AnalyzeNextFinding
    \/ ReturnScores
SpecTriage == Init /\ [][NextTriage]_vars

\* discover_project is called: lines 114-121.  os.walk lists the files in
\* directory order, list(frameworks) in the set's iteration order.
StartDiscoverProject ==
    /\ discovery.phase = "idle"
    /\ \E tree \in SUBSET DiscoverPool, reqs \in SUBSET Frameworks :
         \E files \in ListsOf(tree) :
           \E frameworks \in ListsOf(detect_frameworks(tree, reqs)) :
              discovery' = [discovery EXCEPT !.phase = "frameworks",
                                             !.files = files,
                                             !.frameworks = frameworks]
    /\ UNCHANGED analyzer
    /\ UNCHANGED exceptDiscovery

\* one iteration of `for framework in frameworks` that gets no analyzer:
\* lines 123-125.  The lookup stands outside the try, so an exception from
\* it would leave discover_project.
SkipFramework ==
    /\ discovery.phase = "frameworks"
    /\ discovery.position <= Len(discovery.frameworks)
    /\ LET got == get_analyzer_for_framework(discovery.frameworks[discovery.position])
       IN  /\ got.status # "analyzer"
           /\ discovery' =
                IF got.status = "raised"
                THEN [discovery EXCEPT !.phase = "done", !.project_info = got]
                ELSE [discovery EXCEPT !.position = @ + 1]
    /\ UNCHANGED analyzer
    /\ UNCHANGED exceptDiscovery

\* an iteration that gets an analyzer: lines 123-135.  Every path of the
\* pool ends with .py, starts with no `test` and lies in no tests/ or
\* examples/ directory, so relevant_files is the whole list.
StartFramework ==
    /\ discovery.phase = "frameworks"
    /\ discovery.position <= Len(discovery.frameworks)
    /\ LET got == get_analyzer_for_framework(discovery.frameworks[discovery.position])
       IN  /\ got.status = "analyzer"
           /\ analyzer' = got.analyzer
    /\ discovery' = [discovery EXCEPT !.phase = "files",
                                      !.relevant_files = discovery.files]
    /\ UNCHANGED exceptDiscovery

\* one iteration of `for file in relevant_files`: lines 137-148
AnalyzeRelevantFile ==
    /\ discovery.phase = "files"
    /\ discovery.relevant_files # <<>>
    /\ analyzer' = analyze(analyzer, Head(discovery.relevant_files))
    /\ discovery' = [discovery EXCEPT !.relevant_files = Tail(@)]
    /\ UNCHANGED exceptDiscovery

\* the files are done: lines 150-166.  Whatever is raised while the entry
\* is built is caught at line 163 and the outer loop goes on.
StoreFrameworkEntry ==
    /\ discovery.phase = "files"
    /\ discovery.relevant_files = <<>>
    /\ \E entry_points \in ListsOf(analyzer.entry_points),
          variables \in ListsOf(scope_variables(analyzer)) :
         LET framework == discovery.frameworks[discovery.position]
             entry == FrameworkEntry(analyzer, entry_points, variables)
         IN  discovery' =
               [discovery EXCEPT
                  !.phase = "frameworks",
                  !.position = @ + 1,
                  !.analyzers = (framework :> analyzer) @@ @,
                  !.framework_analysis =
                      IF entry.status = "returned"
                      THEN (framework :> entry.value) @@ @
                      ELSE @]
    /\ UNCHANGED analyzer
    /\ UNCHANGED exceptDiscovery

\* the loop is over: lines 168-192
ReturnProjectInfo ==
    /\ discovery.phase = "frameworks"
    /\ discovery.position > Len(discovery.frameworks)
    /\ discovery' = [discovery EXCEPT
                       !.phase = "done",
                       !.project_info = [status |-> "returned",
                                         value |-> ProjectInfo(discovery)]]
    /\ UNCHANGED analyzer
    /\ UNCHANGED exceptDiscovery

NextDiscovery ==
    \/ StartDiscoverProject \/ SkipFramework \/ StartFramework
    \/ AnalyzeRelevantFile \/ StoreFrameworkEntry \/ ReturnProjectInfo
SpecDiscovery == Init /\ [][NextDiscovery]_vars

\* _get_context is called for a finding of some file
GetContext ==
    /\ \E n \in 1..MaxLines :
         \E region \in Regions(n) :
            context' = [status |-> "returned", n |-> n, region |-> region,
                        source_lines |-> get_context(n, region)]
    /\ UNCHANGED exceptContext

NextContext == GetContext
SpecContext == Init /\ [][NextContext]_vars

\* _group_findings_by_severity is called: lines 68-79
StartGroupFindings ==
    /\ grouping.phase = "idle"
    /\ \E findings \in FindingLists(MaxFindings) :
          grouping' = [grouping EXCEPT !.phase = "grouping",
                                       !.findings = findings]
    /\ UNCHANGED exceptGrouping

\* one iteration of `for finding in findings`: lines 81-87.  Nothing in the
\* method catches, so an exception leaves it.
GroupNextFinding ==
    /\ grouping.phase = "grouping"
    /\ grouping.position <= Len(grouping.findings)
    /\ LET did == GroupFinding(grouping.severity_groups,
                               grouping.findings[grouping.position])
       IN  grouping' =
             IF did.status = "raised"
             THEN [grouping EXCEPT !.phase = "done", !.outcome = did]
             ELSE [grouping EXCEPT !.position = @ + 1,
                                   !.severity_groups = did.groups]
    /\ UNCHANGED exceptGrouping

\* the loop is over: line 88
ReturnSeverityGroups ==
    /\ grouping.phase = "grouping"
    /\ grouping.position > Len(grouping.findings)
    /\ grouping' = [grouping EXCEPT
                      !.phase = "done",
                      !.outcome = [status |-> "returned",
                                   groups |-> grouping.severity_groups]]
    /\ UNCHANGED exceptGrouping

NextGrouping == StartGroupFindings \/ GroupNextFinding \/ ReturnSeverityGroups
SpecGrouping == Init /\ [][NextGrouping]_vars

----------------------------------------------------------------------------
(* Claims about the scorers *)

C1_Bit(b) == IF b THEN 1 ELSE 0

C1_SafeSimilar(f) ==
    Cardinality({i \in DOMAIN f.similar_patterns :
                    f.similar_patterns[i].safety_analysis.is_safe})

\* the documented StaticPatternPolicy sum, in 1/Unit
C1_Documented(f) ==
      3 * (Unit \div 10) * C1_Bit(f.ast_patterns.validation_patterns.input_validation)
    + 2 * (Unit \div 10) * C1_Bit(f.ast_patterns.validation_patterns.sanitizer_calls)
    + 2 * (Unit \div 10) * C1_Bit(f.ast_patterns.validation_patterns.framework_protection)
    - 3 * (Unit \div 10) * C1_Bit(f.ast_patterns.unsafe_patterns.direct_use)
    - 2 * (Unit \div 10) * C1_Bit(f.ast_patterns.unsafe_patterns.missing_validation)
    + (2 * (Unit \div 10) * C1_SafeSimilar(f)) \div Len(f.similar_patterns)
    + f.sanitizer_analysis["sanitizer_effectiveness"] \div 10

\* Example 1 of the specification: signals (true, true, false, false, false),
\* 3 of 5 similar patterns safe, effectiveness 0.5
C1_Example ==
    [ast_patterns |->
        [validation_patterns |->
            [input_validation |-> TRUE, sanitizer_calls |-> TRUE,
             framework_protection |-> FALSE],
         unsafe_patterns |-> [direct_use |-> FALSE, missing_validation |-> FALSE]],
     similar_patterns |-> StaticPatterns(<<TRUE, FALSE, TRUE, FALSE, TRUE>>),
     sanitizer_analysis |-> [sanitizer_effectiveness |-> Hundredths(50)]]

\* C1: under StaticPatternPolicy, with at least one similar pattern and a
\* sanitizer effectiveness in [0,1], the returned score is the clamp to [0,1] of
\* 0.3 iv + 0.2 sc + 0.2 fp - 0.3 du - 0.2 mv + 0.2 safe/total + 0.1 eff; the
\* example of the specification scores 0.67.
C1_StaticPatternFormula ==
    (/\ preset = "static"
     /\ Len(finding.similar_patterns) >= 1
     /\ "sanitizer_effectiveness" \in DOMAIN finding.sanitizer_analysis)
    => /\ result.status = "returned"
       /\ LET d == C1_Documented(finding)
          IN  result.score = (IF d < 0 THEN 0 ELSE IF d > Unit THEN Unit ELSE d)
       /\ (finding = C1_Example => result.score = (67 * Unit) \div 100)

C1_Witness ==
    /\ preset = "static"
    /\ finding = C1_Example
    /\ result = [status |-> "returned", score |-> (67 * Unit) \div 100]

\* C2: every score either preset returns lies in [0,1].
C2_ScoreInUnitInterval ==
    result.status = "returned" => (0 <= result.score /\ result.score <= Unit)

\* a returned score whose unclamped sum was negative
C2_Witness ==
    /\ preset = "dataflow"
    /\ result.status = "returned"
    /\ DataFlowPatternSum(finding) < 0
    /\ finding.similar_patterns = <<>>
    /\ result.score = 0

\* C4: a score is labelled 'likely true positive' exactly when it is below 0.3,
\* 'likely false positive' exactly when it is above 0.7, and 'needs manual
\* review' otherwise, the two cut points included; every score gets one label.
C4_InterpretationThresholds ==
    label # "" =>
        /\ label \in {"likely true positive", "likely false positive",
                      "needs manual review"}
        /\ (label = "likely true positive") <=> (10 * result.score < 3 * Unit)
        /\ (label = "likely false positive") <=> (10 * result.score > 7 * Unit)
        /\ (label = "needs manual review")
             <=> (10 * result.score >= 3 * Unit /\ 10 * result.score <= 7 * Unit)

\* a score exactly at the lower cut point has been interpreted
C4_Witness ==
    /\ label = "needs manual review"
    /\ 10 * result.score = 3 * Unit

C5_Ratio(a) ==
    IF Len(a.similar_patterns) = 0 THEN 0
    ELSE (2 * (Unit \div 10)
          * Cardinality({i \in DOMAIN a.similar_patterns :
                            a.similar_patterns[i].is_safe}))
         \div Len(a.similar_patterns)

C5_Clamp(d) == IF d < 0 THEN 0 ELSE IF d > Unit THEN Unit ELSE d

C5_EffectiveSanitizer(a) ==
    /\ "effectiveness" \in DOMAIN a.sanitizer_analysis
    /\ 10 * a.sanitizer_analysis["effectiveness"] > 7 * Unit

\* C5 as stated: under DataFlowAwarePolicy the sanitizer term is one of the
\* positive 0.2 pattern terms, so the score is the clamp of +0.4 (reaches sink)
\* -0.3 (sanitization) +0.2 (validation) +0.2 (sanitizer) +0.2 safe/total.
C5_SanitizerTermPositive ==
    preset = "dataflow" =>
        result.score =
            C5_Clamp(  4 * (Unit \div 10) * C1_Bit(finding.data_flow.reaches_sink)
                     - 3 * (Unit \div 10) * C1_Bit(finding.data_flow.has_sanitization)
                     + 2 * (Unit \div 10) * C1_Bit(finding.ast_patterns.has_validation)
                     + 2 * (Unit \div 10) * C1_Bit(C5_EffectiveSanitizer(finding))
                     + C5_Ratio(finding))

\* C5 amended: the score is the clamp to [0,1] of +0.4 if the value reaches a
\* sink, -0.3 if sanitization intercepts it, +0.2 if input validation is
\* present, -0.2 if the sanitizer effectiveness exceeds 0.7, and
\* +0.2 safe/total (0 without similar patterns); there is no framework term.
C5_DataFlowFormula ==
    preset = "dataflow" =>
        /\ result.status = "returned"
        /\ result.score =
            C5_Clamp(  4 * (Unit \div 10) * C1_Bit(finding.data_flow.reaches_sink)
                     - 3 * (Unit \div 10) * C1_Bit(finding.data_flow.has_sanitization)
                     + 2 * (Unit \div 10) * C1_Bit(finding.ast_patterns.has_validation)
                     - 2 * (Unit \div 10) * C1_Bit(C5_EffectiveSanitizer(finding))
                     + C5_Ratio(finding))

\* an effective sanitizer has lowered a sink-reaching finding from 0.4 to 0.2
C5_Witness ==
    /\ preset = "dataflow"
    /\ C5_EffectiveSanitizer(finding)
    /\ finding.data_flow.reaches_sink
    /\ ~finding.data_flow.has_sanitization
    /\ ~finding.ast_patterns.has_validation
    /\ finding.similar_patterns = <<>>
    /\ 10 * result.score = 2 * Unit

\* C6: in both presets a finding without similar patterns or without
\* sanitizer-effectiveness data is still scored, the absent term counting 0.
C6_MissingContextScoresZero ==
    /\ (preset = "static"
        /\ (Len(finding.similar_patterns) = 0
            \/ "sanitizer_effectiveness" \notin DOMAIN finding.sanitizer_analysis))
       => /\ result.status = "returned"
          /\ result.score =
               C5_Clamp(StaticPatternSum(finding)
                        + (IF Len(finding.similar_patterns) = 0 THEN 0
                           ELSE (2 * (Unit \div 10) * C1_SafeSimilar(finding))
                                \div Len(finding.similar_patterns))
                        + (IF "sanitizer_effectiveness"
                                \in DOMAIN finding.sanitizer_analysis
                           THEN finding.sanitizer_analysis["sanitizer_effectiveness"]
                                \div 10
                           ELSE 0))
    /\ (preset = "dataflow"
        /\ (Len(finding.similar_patterns) = 0
            \/ "effectiveness" \notin DOMAIN finding.sanitizer_analysis))
       => result.status = "returned"

----------------------------------------------------------------------------
(* Claims about the severity adjuster *)

C3_Levels == <<"low", "medium", "high", "critical">>

C3_Rank(s) == CHOOSE i \in 1..4 : C3_Levels[i] = s

\* C3: for a base severity among low < medium < high < critical,
\* _adjust_severity returns the next lower level if score < 0.3 and base is not
\* low, the next higher level if score > 0.8 and base is not critical, and the
\* base otherwise (so 0.3 and 0.8 change nothing, and the result is at most
\* one level away).
C3_AdjustSeverityRule ==
    (adjusted.status # "none" /\ base_severity \in {"low", "medium", "high", "critical"})
    => /\ adjusted.status = "returned"
       /\ LET r == C3_Rank(base_severity)
          IN  adjusted.severity =
                IF 10 * confidence < 3 * Unit /\ base_severity # "low"
                THEN C3_Levels[r - 1]
                ELSE IF 10 * confidence > 8 * Unit /\ base_severity # "critical"
                THEN C3_Levels[r + 1]
                ELSE base_severity

\* a score exactly at the upper cut point left the severity alone
C3_Witness ==
    /\ adjusted.status = "returned"
    /\ base_severity = "high"
    /\ 10 * confidence = 8 * Unit
    /\ adjusted.severity = "high"

----------------------------------------------------------------------------
(* Claims about discovery *)

\* C7: two runs of analyze_project over an identical file set and catalog
\* return identical results, order included: the same entry_points list, the
\* same data_flows sequence and the same trust_boundaries.
C7_RunsIdentical ==
    Len(project.results) = 2 => project.results[1] = project.results[2]

C8_Last(path) == path[Len(path)]

\* the last hop is the sink, or the name the sink string is built from
C8_DerivesFrom(last, sink) ==
    \/ last = sink
    \/ \E name \in SINK_PATTERNS : sink = last \o "::" \o name
    \/ sink = "response::" \o last
    \/ sink = "response." \o last

C8_EdgeOk(e) == e.path # <<>> /\ C8_DerivesFrom(C8_Last(e.path), e.sink)

\* C8: every edge appended by the Flask or the Express analyzer has a
\* non-empty path whose last element derives from the edge's sink.
C8_PathEndsAtSink ==
    /\ \A i \in DOMAIN analyzer.data_flows : C8_EdgeOk(analyzer.data_flows[i])
    /\ \A i \in DOMAIN express.data_flows : C8_EdgeOk(express.data_flows[i])

\* visit_FunctionDef returns for the innermost open definition
C9_Leaves(frame) ==
    /\ analyzer.call_stack # <<>>
    /\ frame = analyzer.call_stack[Len(analyzer.call_stack)]
    /\ analyzer'.call_stack =
           SubSeq(analyzer.call_stack, 1, Len(analyzer.call_stack) - 1)

C9_FrameOf == analyzer.call_stack[Len(analyzer.call_stack)]

\* C9: for every function definition fn carrying a decorator call whose
\* attribute is route/get/post/put/delete, the Flask analyzer adds the entry
\* point '<fn> (HTTP endpoint)' and appends an edge HTTP::<fn> -> <fn> whose
\* path ends in <fn>, fn being the decorated function itself.
C9_RouteDetection ==
    [][ (/\ analyzer.call_stack # <<>>
         /\ C9_Leaves(C9_FrameOf)
         /\ \E d \in DOMAIN C9_FrameOf.node.decorator_list :
               IsRouteDecorator(C9_FrameOf.node.decorator_list[d]))
        => LET fn == C9_FrameOf.node.name
           IN  /\ (fn \o " (HTTP endpoint)") \in analyzer'.entry_points
               /\ \E i \in (DOMAIN analyzer'.data_flows) \ (DOMAIN analyzer.data_flows) :
                     LET e == analyzer'.data_flows[i]
                     IN  /\ e.source = "HTTP::" \o fn
                         /\ e.sink = fn
                         /\ C8_Last(e.path) = fn
      ]_vars

\* a sink edge of function fn, and a source-access edge of fn
C10_IsSinkEdge(e, fn) ==
    /\ e.path = <<fn>>
    /\ \E name \in SINK_PATTERNS : e.sink = fn \o "::" \o name

C10_IsSourceEdge(e, fn) ==
    /\ Len(e.path) = 2
    /\ e.sink = fn
    /\ e.path[1] \in SOURCE_PATTERNS
    /\ e.source = fn \o "::" \o e.path[1]

\* C10: a sink edge of fn has as its source the taint origin most recently
\* recorded for fn before the sink: '<fn>::<pattern>' of the latest source
\* access of fn that precedes it (the accesses data_flows records, such as
\* request.get_json()), and fn itself only when none precedes it.
C10_SinkSourceIsLastOrigin ==
    \A fn \in FunctionNames \cup {"main", "health"} :
      \A j \in DOMAIN analyzer.data_flows :
        C10_IsSinkEdge(analyzer.data_flows[j], fn) =>
            LET before == {i \in 1..(j - 1) :
                               C10_IsSourceEdge(analyzer.data_flows[i], fn)}
            IN  IF before = {}
                THEN analyzer.data_flows[j].source = fn
                ELSE analyzer.data_flows[j].source =
                         analyzer.data_flows[
                             CHOOSE i \in before : \A k \in before : k <= i].source

\* the source accesses among Expressions, each with the pattern it matches
C11_Accesses ==
    {[node |-> Subscript(Attribute(Name("request"), "files")),
      pattern |-> "request.files"],
     [node |-> Call(Attribute(Name("request"), "get_json"), <<>>),
      pattern |-> "request.get_json"]}

\* C11: every attribute path inside function fn that matches a source
\* pattern, a plain access as well as a call, appends the edge
\* '<fn>::<pattern>' -> fn with path [pattern, fn] and variables {root object}
\* and records '<fn>::<pattern>' as fn's taint origin.
C11_SourceAccessEdge ==
    [][ \A acc \in C11_Accesses :
          (/\ analyzer.current_function # None
           /\ nodes' = nodes + 1
           /\ analyzer' = visit(analyzer, acc.node))
          => LET fn == analyzer.current_function
                 origin == fn \o "::" \o acc.pattern
             IN  /\ analyzer'.data_flows =
                        Append(analyzer.data_flows,
                               DataFlow(origin, fn, <<acc.pattern, fn>>, {"request"}))
                 /\ fn \in DOMAIN analyzer'.variable_sources
                 /\ analyzer'.variable_sources[fn].location = origin
      ]_vars

\* the file holding the route-decorated handler upload of FileText
C12_Tree == {[path |-> "pkg/app.py", name |-> "app.py"]}

C12_Edges(r, source, sink) ==
    {i \in DOMAIN r.data_flows :
        r.data_flows[i].source \in source /\ r.data_flows[i].sink = sink}

\* C12: for the route-decorated handler upload that assigns
\* file = request.files['f'] and returns send_file(file), the output holds the
\* entry point 'upload (HTTP endpoint)', exactly one edge HTTP::upload ->
\* upload and exactly one edge from the recorded request.files origin to
\* 'upload::send_file'.
C12_UploadExample ==
    \A n \in DOMAIN project.results :
        project.tree = C12_Tree =>
            LET r == project.results[n]
            IN  /\ \E i \in DOMAIN r.entry_points :
                       r.entry_points[i] = "upload (HTTP endpoint)"
                /\ Cardinality(C12_Edges(r, {"HTTP::upload"}, "upload")) = 1
                /\ Cardinality(C12_Edges(r, {"upload::request.files", "upload"},
                                         "upload::send_file")) = 1

\* right-hand sides that call one of the listed external-input primitives
C13_ExternalInputCalls ==
    {Call(Name("input"), <<>>),
     Call(Attribute(Name("request"), "get_json"), <<>>)}

\* C13: every assignment x = value inside fn records x as a scope variable
\* defined in fn; x is marked external_input whenever value is a call to
\* input, read, recv or request.get_json, and is left unmarked otherwise.
C13_AssignmentTracking ==
    [][ \A target \in Targets, value \in Expressions :
          (/\ analyzer.current_function # None
           /\ nodes' = nodes + 1
           /\ analyzer' = visit_Assign(analyzer, Assign(<<target>>, value)))
          => LET x == target.id
             IN  /\ x \in DOMAIN analyzer'.current_scope_variables
                 /\ analyzer'.current_scope_variables[x].source
                        = analyzer.current_function
                 /\ value \in C13_ExternalInputCalls
                      => /\ x \in DOMAIN analyzer'.variable_sources
                         /\ analyzer'.variable_sources[x].type = "external_input"
                 /\ (value \notin C13_ExternalInputCalls
                     /\ x \notin DOMAIN analyzer.variable_sources
                     /\ x # analyzer.current_function)
                      => x \notin DOMAIN analyzer'.variable_sources
      ]_vars

\* the processor edge of function fn
C14_IsProcessorEdge(e, fn) ==
    /\ e.source = "request::" \o fn
    /\ e.sink = "response::" \o fn
    /\ e.path # <<>>
    /\ e.path[Len(e.path)] = fn

\* C14: for every function definition whose own name is a processor pattern,
\* at any nesting level and whatever its decorators and body, the analyzer
\* appends exactly one edge request::<fn> -> response::<fn> with a path ending
\* in <fn>; none is appended for a function whose name is not a processor
\* pattern.
C14_ProcessorEdge ==
    [][ (/\ analyzer.call_stack # <<>>
         /\ analyzer'.call_stack =
                SubSeq(analyzer.call_stack, 1, Len(analyzer.call_stack) - 1))
        => LET fn == analyzer.call_stack[Len(analyzer.call_stack)].node.name
               appended == (DOMAIN analyzer'.data_flows) \ (DOMAIN analyzer.data_flows)
           IN  IF fn \in PROCESSOR_PATTERNS
               THEN Cardinality({i \in appended :
                        C14_IsProcessorEdge(analyzer'.data_flows[i], fn)}) = 1
               ELSE \A i \in appended : \A p \in PROCESSOR_PATTERNS :
                        ~C14_IsProcessorEdge(analyzer'.data_flows[i], p)
      ]_vars

\* C15: scope discipline is strict LIFO at any nesting depth: inside the body
\* of g nested in f the current scope is g, once g's definition has been left
\* it is f again, and when no definition is open (the traversal of the file
\* is complete) it is None.
C15_ScopeIsLIFO ==
    LET stack == analyzer.call_stack
    IN  /\ analyzer.current_function =
               IF stack = <<>> THEN None ELSE stack[Len(stack)].node.name
        /\ \A i \in DOMAIN stack :
               stack[i].prev_function =
                   IF i = 1 THEN None ELSE stack[i - 1].node.name

\* a definition nested in before_request has been left (only then is the
\* processor edge of before_request appended) and the statement that follows
\* it, flask.jsonify(file), is attributed to before_request
C15_Witness ==
    /\ Len(analyzer.call_stack) = 1
    /\ analyzer.current_function = "before_request"
    /\ Len(analyzer.data_flows) = 2
    /\ analyzer.data_flows[1].source = "request::before_request"
    /\ analyzer.data_flows[2].sink = "before_request::jsonify"

\* what a fresh analyzer produces for the file alone
C16_Alone(file) == AnalyzeProjectFile(NewAnalyzer, file)

\* C16: analysis is restartable per file: the entry points and edges
\* (source, sink and variables_involved included) contributed for a file are
\* the same whether or not the same analyzer instance analyzed other files
\* before it.
C16_NoStateCrossesFiles ==
    [][ \A file \in project.pending :
          (/\ project'.pending = project.pending \ {file}
           /\ analyzer' = AnalyzeProjectFile(analyzer, file))
          => /\ Len(analyzer'.data_flows) >= Len(analyzer.data_flows)
             /\ SubSeq(analyzer'.data_flows, Len(analyzer.data_flows) + 1,
                       Len(analyzer'.data_flows)) = C16_Alone(file).data_flows
             /\ analyzer'.entry_points =
                    analyzer.entry_points \cup C16_Alone(file).entry_points
      ]_vars

C17_Broken == {file \in FilePool : FileText(file) = Unparsable}

\* the edges a parsable file contributes all appear, by sink and path, in r
C17_Analyzed(file, r) ==
    \A i \in DOMAIN C16_Alone(file).data_flows :
        \E j \in DOMAIN r.data_flows :
            /\ r.data_flows[j].sink = C16_Alone(file).data_flows[i].sink
            /\ r.data_flows[j].path = C16_Alone(file).data_flows[i].path

\* C17: a file that fails to parse is isolated: analysing it adds no entry
\* point and no edge and leaves what earlier files accumulated unchanged, the
\* loop goes on, and every other file of the tree is still analyzed.
C17_ParseFailureIsolated ==
    /\ [][ \A file \in project.pending \cap C17_Broken :
             (project'.pending = project.pending \ {file})
             => /\ analyzer' = analyzer
                /\ project'.phase = "analyzing"
         ]_vars
    /\ [](\A n \in DOMAIN project.results :
            \A file \in project.tree \ C17_Broken :
                C17_Analyzed(file, project.results[n]))

\* a tree with the unparsable file and two parsable ones has been analyzed,
\* and the result holds the edges of the parsable ones
C17_Witness ==
    /\ project.results # <<>>
    /\ C17_Broken # {}
    /\ C17_Broken \subseteq project.tree
    /\ Cardinality(project.tree) = 3
    /\ Len(project.results[1].data_flows) >= 3

\* the three fixed boundaries with their catalog defaults
C18_Fixed(b) ==
    /\ DOMAIN b = {"wsgi", "request_processing", "session"}
    /\ b.wsgi = [name |-> "WSGI Boundary", entry_points |-> {"wsgi_app"},
                 exit_points |-> {"__call__"}, sanitizers |-> {}]
    /\ b.request_processing =
           [name |-> "Request Processing",
            entry_points |-> PROCESSOR_PATTERNS,
            exit_points |-> SINK_PATTERNS,
            sanitizers |-> {"escape", "safe_join", "secure_filename"}]
    /\ b.session = [name |-> "Session Boundary", entry_points |-> {"session"},
                    exit_points |-> {"session.save"},
                    sanitizers |-> {"session.sign", "session.encrypt"}]

\* C18: analyze_project returns exactly the three fixed trust boundaries with
\* their catalog defaults for every tree, and entry_points = [] and
\* data_flows = [] for a tree with no analyzable file.
C18_FixedTrustBoundaries ==
    \A n \in DOMAIN project.results :
        /\ C18_Fixed(project.results[n].trust_boundaries)
        /\ project.tree \subseteq C17_Broken
             => /\ project.results[n].entry_points = <<>>
                /\ project.results[n].data_flows = <<>>

\* a tree holding only the unparsable file has been analyzed
C18_Witness ==
    /\ project.results # <<>>
    /\ project.tree # {}
    /\ project.tree \subseteq C17_Broken

----------------------------------------------------------------------------
(* Claims about scoring a payload *)

\* the finding, handed over alone, is enriched and scored
C19_ScoresAlone(agent, f) ==
    /\ analyze_finding(agent, f).status = "returned"
    /\ agent = "CodeQLTriageAgent"
         => StaticCalculateConfidenceScore(StaticEnriched(f)).status = "returned"

\* C19: errors are isolated at finding granularity: a finding whose
\* enrichment or scoring fails never aborts analyze_findings / analyze_sarif,
\* and the other findings of the payload are still scored and appear in the
\* returned mapping.
C19_FindingErrorsIsolated ==
    \A n \in DOMAIN triage.outcomes :
        /\ triage.outcomes[n].status = "returned"
        /\ \A i \in DOMAIN triage.payload :
               C19_ScoresAlone(triage.agent, triage.payload[i])
                 => FindingId(triage.agent, triage.payload[i])
                        \in DOMAIN triage.outcomes[n].scores

\* C20: the mapping finding identifier -> score is order-independent: the
\* same findings processed in any order give the same mapping.
C20_OrderIndependent ==
    (/\ Len(triage.outcomes) = 2
     /\ triage.outcomes[1].status = "returned"
     /\ triage.outcomes[2].status = "returned")
    => triage.outcomes[1].scores = triage.outcomes[2].scores

----------------------------------------------------------------------------
(* Further claims about the severity adjuster and the scorers *)

\* the place of a severity, in any letter case, in low < medium < high < critical
C21_Rank(s) == C3_Rank(Lower(s))

\* C21: severity adjustment is monotonic in the confidence score: for a fixed
\* base severity and scores c1 <= c2 the adjusted severity for c1 is not above
\* the one for c2, on both sides of the 0.3 and 0.8 cut points.
C21_MonotonicInConfidence ==
    adjusted.status = "returned"
    => \A c2 \in Confidences :
          /\ AdjustSeverity(base_severity, c2).status = "returned"
          /\ confidence <= c2
               => C21_Rank(adjusted.severity)
                     <= C21_Rank(AdjustSeverity(base_severity, c2).severity)
          /\ c2 <= confidence
               => C21_Rank(AdjustSeverity(base_severity, c2).severity)
                     <= C21_Rank(adjusted.severity)

\* a score just under the lower cut point demoted a finding that scores
\* above the upper cut point promote
C21_Witness ==
    /\ base_severity = "medium"
    /\ confidence = Hundredths(29)
    /\ adjusted = [status |-> "returned", severity |-> "low"]
    /\ AdjustSeverity("medium", Hundredths(81)).severity = "high"

----------------------------------------------------------------------------
(* Claims about discover_project *)

\* the framework names detect_frameworks can report that analyzer_map does
\* not hold
C23_Unregistered == {"django", "fastapi"}

C23_Detected == {discovery.frameworks[i] : i \in DOMAIN discovery.frameworks}

\* C23: a detected framework without a registered analyzer is no error:
\* get_analyzer_for_framework yields None for it, and a discover_project
\* that detected one ends by returning project_info (nothing raised) with
\* no framework_analysis entry and no analyzer run for it, while every
\* other detected framework was analyzed.
C23_UnknownFrameworkIsNoError ==
    /\ \A fw \in C23_Unregistered : get_analyzer_for_framework(fw) = NoResult
    /\ (discovery.phase = "done" /\ C23_Detected \cap C23_Unregistered # {}) =>
          /\ discovery.project_info.status = "returned"
          /\ discovery.project_info.value.frameworks = discovery.frameworks
          /\ \A fw \in C23_Unregistered :
                /\ fw \notin DOMAIN discovery.project_info.value.framework_analysis
                /\ fw \notin DOMAIN discovery.analyzers
          /\ C23_Detected \ C23_Unregistered \subseteq DOMAIN discovery.analyzers

\* django is detected and met before flask, whose analyzer then found flows
C23_Witness ==
    /\ discovery.phase = "done"
    /\ Len(discovery.frameworks) >= 2
    /\ discovery.frameworks[1] = "django"
    /\ "flask" \in DOMAIN discovery.analyzers
    /\ discovery.analyzers["flask"].data_flows # <<>>
    /\ discovery.project_info.status = "returned"

\* C24: when the Flask analyzer found an entry point or a data flow, the
\* returned project_info has framework_analysis['flask'] holding those
\* entry points and one {source, sink, path, variables_involved} per data
\* flow found.
C24_FoundResultsAreReported ==
    (/\ discovery.phase = "done"
     /\ "flask" \in DOMAIN discovery.analyzers
     /\ \/ discovery.analyzers["flask"].entry_points # {}
        \/ discovery.analyzers["flask"].data_flows # <<>>) =>
       /\ discovery.project_info.status = "returned"
       /\ "flask" \in DOMAIN discovery.project_info.value.framework_analysis
       /\ LET found == discovery.analyzers["flask"]
              entry == discovery.project_info.value.framework_analysis["flask"]
          IN  /\ {entry.entry_points[i] : i \in DOMAIN entry.entry_points}
                    = found.entry_points
              /\ entry.data_flows = found.data_flows

----------------------------------------------------------------------------
(* Claims about scope variables *)

\* C25: scope variables are per function: a sink edge created in function
\* fn involves only names assigned inside fn.  A name whose recorded
\* assignment was made at module level (current_function None, which holds
\* only while no function is open) was not assigned inside fn since, so no
\* sink edge created inside a function involves such a name.
C25_ScopeVariablesPerFunction ==
    [][ \A value \in Expressions :
          (/\ analyzer.current_function # None
           /\ analyzer' = visit(analyzer, value)
           /\ nodes' = nodes + 1)
          => \A i \in (Len(analyzer.data_flows) + 1)..Len(analyzer'.data_flows) :
                C10_IsSinkEdge(analyzer'.data_flows[i], analyzer.current_function)
                => \A name \in analyzer'.data_flows[i].variables_involved :
                      analyzer.current_scope_variables[name].source # None
      ]_vars

----------------------------------------------------------------------------
(* Claims about the source context window *)

\* the 1-based lines lo..hi of the file
C26_Lines(lo, hi) == [i \in 1..(hi - lo + 1) |-> lo + i - 1]

\* C26: for a finding at the 1-based lines startLine..endLine of a file of
\* n lines, _get_context returns exactly the lines max(1, startLine - 5) ..
\* min(n, endLine + 5): five lines before and five after, clipped to the
\* file.
C26_ContextWindow ==
    context.status = "returned" =>
        context.source_lines =
            C26_Lines(Max(1, context.region.startLine - 5),
                      Min(context.n, context.region.endLine + 5))

----------------------------------------------------------------------------
(* Claims about the order of data_flows *)

C27_IsPrefix(s, t) == Len(s) <= Len(t) /\ SubSeq(t, 1, Len(s)) = s

\* C27: data_flows is append-only in first-seen order: every step of the
\* analyzer leaves the edges recorded before it unchanged as a prefix of
\* data_flows; no edge is removed, replaced, de-duplicated or re-ordered.
C27_AppendOnly ==
    [][C27_IsPrefix(analyzer.data_flows, analyzer'.data_flows)]_vars

\* the same sink edge was recorded twice and a route edge came after them
C27_Witness ==
    /\ Len(analyzer.data_flows) >= 3
    /\ analyzer.data_flows[1] = analyzer.data_flows[2]
    /\ analyzer.data_flows[3].path[1] = "wsgi_app"

----------------------------------------------------------------------------
(* Claims about severity bucketing *)

\* how many times f stands in the list
C28_Count(list, f) == Cardinality({i \in DOMAIN list : list[i] = f})

\* C28: severity bucketing is a partition: for findings whose base severity
\* is low/medium/high/critical in any letter case, and any confidence
\* scores, _group_findings_by_severity completes, and every finding stands
\* in exactly one of the buckets 'critical', 'high', 'medium', 'low', so
\* the bucket sizes sum to the number of findings.
C28_BucketsPartition ==
    grouping.phase = "done" =>
       /\ grouping.outcome.status = "returned"
       /\ LET groups == grouping.outcome.groups
          IN  /\ DOMAIN groups = {"critical", "high", "medium", "low"}
              /\ Len(groups["critical"]) + Len(groups["high"])
                   + Len(groups["medium"]) + Len(groups["low"])
                    = Len(grouping.findings)
              /\ \A f \in GroupFindings :
                    C28_Count(groups["critical"] \o groups["high"]
                                \o groups["medium"] \o groups["low"], f)
                        = C28_Count(grouping.findings, f)

----------------------------------------------------------------------------
(* Claims about taint origins *)

C29_Edges == {analyzer.data_flows[i] : i \in DOMAIN analyzer.data_flows}

\* C29: taint origins are isolated per function: every sink edge with sink
\* '<fn>::<sinkName>' has as its source fn itself or '<fn>::<pattern>' for
\* a source pattern; a variable marked as external input, whatever its
\* name and wherever it was assigned, never changes the source.
C29_OriginsIsolated ==
    \A e \in C29_Edges, fn \in FunctionNames :
        C10_IsSinkEdge(e, fn) =>
            \/ e.source = fn
            \/ \E pattern \in SOURCE_PATTERNS : e.source = fn \o "::" \o pattern

----------------------------------------------------------------------------
(* Claims about the order of a handler's edges *)

\* C30: for a route-decorated function fn the synthetic route edge stands
\* in data_flows before every edge discovered inside fn's body.  The route
\* edge is taken to be the edge with the path wsgi_app, dispatch_request
\* that the visit of fn's definition records, whatever name it carries;
\* when that visit is over it precedes each source-access and sink edge
\* of fn.
C30_RouteEdgeFirst ==
    [][ \A fn \in FunctionNames :
          (/\ analyzer.call_stack # <<>>
           /\ C9_FrameOf.node.name = fn
           /\ \E i \in DOMAIN C9_FrameOf.node.decorator_list :
                 IsRouteDecorator(C9_FrameOf.node.decorator_list[i])
           /\ analyzer' = visit_FunctionDef_exit(analyzer))
          => \E i \in (Len(analyzer.data_flows) + 1)..Len(analyzer'.data_flows) :
                /\ analyzer'.data_flows[i].path[1] = "wsgi_app"
                /\ \A j \in DOMAIN analyzer'.data_flows :
                      (\/ C10_IsSinkEdge(analyzer'.data_flows[j], fn)
                       \/ C10_IsSourceEdge(analyzer'.data_flows[j], fn))
                      => i < j
      ]_vars

====
